---- MODULE Spec2Model ----
(***************************************************************************)
(* Model of questions/aggregate_data.py: aggregate_data walks a tree of    *)
(* subject directories, merges subject.json with every question.json and   *)
(* the question's image, and writes one JSON document.                     *)
(*                                                                         *)
(* Text (file names, URLs, mime types) is a sequence of one-character      *)
(* strings, so that lower(), startswith(), rstrip(), suffix and sorted()   *)
(* are computed as Python computes them.  A dict is a function whose       *)
(* domain is its set of keys.                                              *)
(***************************************************************************)
EXTENDS Integers, Sequences, FiniteSets, TLC

(* ------------------------------ bounds --------------------------------- *)

\* most nodes of the input tree: the entries of the root directory, the
\* entries of the questions directories and the files of the question
\* directories
MaxNodes == 4

(* ------------------------------- text ---------------------------------- *)

\* the characters of the model in code-point order (Python compares str by
\* code point)
Ascii ==
  << ".", "/", "0", "1", "2", "3", "4", "5", "6", "7", "8", "9", ":",
     "A", "B", "C", "D", "E", "F", "G", "H", "I", "J", "K", "L", "M",
     "N", "O", "P", "Q", "R", "S", "T", "U", "V", "W", "X", "Y", "Z", "_",
     "a", "b", "c", "d", "e", "f", "g", "h", "i", "j", "k", "l", "m",
     "n", "o", "p", "q", "r", "s", "t", "u", "v", "w", "x", "y", "z" >>

Rank == [c \in {Ascii[i] : i \in 1..Len(Ascii)} |-> CHOOSE i \in 1..Len(Ascii) : Ascii[i] = c]

\* ord(c), up to the characters the model leaves out
Ord(c) == Rank[c]

\* str.lower() on one character: an upper-case letter is 27 places before
\* its lower-case letter in Ascii
LowerChar(c) == IF Ord(c) >= Ord("A") /\ Ord(c) <= Ord("Z") THEN Ascii[Ord(c) + 27] ELSE c

\* str.lower()
Lower(s) == [i \in 1..Len(s) |-> LowerChar(s[i])]

\* str.startswith(prefix)
StartsWith(s, prefix) ==
  /\ Len(s) >= Len(prefix)
  /\ SubSeq(s, 1, Len(prefix)) = prefix

\* a rstrip that drops one slash only
RStripOne(s) == IF s # << >> /\ s[Len(s)] = "/" THEN SubSeq(s, 1, Len(s) - 1) ELSE s

\* str.rstrip('/')
RECURSIVE RStrip(_)
RStrip(s) == IF s # << >> /\ s[Len(s)] = "/" THEN RStrip(SubSeq(s, 1, Len(s) - 1)) ELSE s

\* a < b for two str
RECURSIVE StrLess(_, _)
StrLess(a, b) ==
  IF b = << >> THEN FALSE
  ELSE IF a = << >> THEN TRUE
  ELSE IF a[1] # b[1] THEN Ord(a[1]) < Ord(b[1])
  ELSE StrLess(Tail(a), Tail(b))

\* PurePath.suffix: the name from its last dot on, unless that dot is the
\* first or the last character
Suffix(name) ==
  LET dots == {i \in 1..Len(name) : name[i] = "."}
      last == CHOOSE i \in dots : \A j \in dots : j <= i
  IN IF dots = {} THEN << >>
     ELSE IF last > 1 /\ last < Len(name) THEN SubSeq(name, last, Len(name))
     ELSE << >>

\* sorted(): insertion of each element of the listing in its place
RECURSIVE Insert(_, _)
Insert(sorted, x) ==
  IF sorted = << >> THEN << x >>
  ELSE IF StrLess(x, Head(sorted)) THEN << x >> \o sorted
  ELSE << Head(sorted) >> \o Insert(Tail(sorted), x)

\* a listing left as the system gave it
Unsorted(listing) == listing

RECURSIVE Sorted(_)
Sorted(listing) ==
  IF listing = << >> THEN << >>
  ELSE Insert(Sorted(SubSeq(listing, 1, Len(listing) - 1)), listing[Len(listing)])

\* Python's None where a str may stand
None == << "None" >>

(* ------------------------ names used in the trees ---------------------- *)

n_git == << ".", "g", "i", "t" >>
n_web == << "w", "e", "b" >>
n_readme == << "R", "E", "A", "D", "M", "E", ".", "m", "d" >>
n_tmp == << "t", "m", "p" >>
n_aag == << "a", "a", "g" >>
n_bio == << "b", "i", "o" >>
n_questions == << "q", "u", "e", "s", "t", "i", "o", "n", "s" >>
n_subject_json == << "s", "u", "b", "j", "e", "c", "t", ".", "j", "s", "o", "n" >>
n_question_json == << "q", "u", "e", "s", "t", "i", "o", "n", ".", "j", "s", "o", "n" >>
n_q1 == << "q", "1" >>
n_q10 == << "q", "1", "0" >>
n_q2 == << "q", "2" >>
n_q3 == << "q", "3" >>
n_notes == << "n", "o", "t", "e", "s", ".", "t", "x", "t" >>
n_quiz_png == << "q", "u", "i", "z", ".", "p", "n", "g" >>
n_QUIZ_PNG == << "Q", "U", "I", "Z", ".", "P", "N", "G" >>
n_Quiz1_JPG == << "Q", "u", "i", "z", "1", ".", "J", "P", "G" >>
n_a_svg == << "a", ".", "s", "v", "g" >>
n_b_webp == << "b", ".", "w", "e", "b", "p" >>
n_c_jpeg == << "c", ".", "j", "p", "e", "g" >>
n_d_svg == << "d", ".", "s", "v", "g" >>
n_dot_png == << ".", "p", "n", "g" >>
n_out == << "q", "u", "e", "s", "t", "i", "o", "n", "s", ".", "j", "s", "o", "n" >>

(* --------------------------- dicts and values -------------------------- *)

\* the empty dict
EmptyDict == [k \in {} |-> None]

\* d[k] = v
Put(d, k, v) == [x \in DOMAIN d \cup {k} |-> IF x = k THEN v ELSE d[x]]

\* dict.get(k): None for a missing key
Get(d, k) == IF k \in DOMAIN d THEN d[k] ELSE None

\* the bytes of no file
NoBytes == [file |-> << >>, encoding |-> << >>, quality |-> 0]

\* a str held by an image field of a question
StrValue(text) == [kind |-> "str", text |-> text, payload |-> NoBytes]

(* ----------------------------- the input tree -------------------------- *)

\* A file of a question directory: its name, whether open() can read it (a
\* dangling link or a directory cannot be read), the format Pillow detects in
\* its bytes (<< >>: none, as for the text of an SVG) and whether Pillow can
\* load all of it (a truncated image opens but cannot be saved again).
File(name, readable, format, complete) ==
  [name |-> name, readable |-> readable, format |-> format, complete |-> complete]

PNG == << "P", "N", "G" >>
JPEG == << "J", "P", "E", "G" >>
WEBP == << "W", "E", "B", "P" >>

Files ==
  { File(n_quiz_png, TRUE, PNG, TRUE),
    File(n_QUIZ_PNG, TRUE, << >>, FALSE),
    File(n_Quiz1_JPG, TRUE, JPEG, TRUE),
    File(n_a_svg, TRUE, << >>, FALSE),
    File(n_b_webp, TRUE, WEBP, FALSE),
    File(n_c_jpeg, FALSE, << >>, FALSE),
    File(n_d_svg, TRUE, PNG, TRUE),
    File(n_dot_png, TRUE, PNG, TRUE) }

\* a JSON file: absent, not JSON, or an object
Json(status, data) == [status |-> status, data |-> data]
NoJson == Json("absent", EmptyDict)
BadJson == Json("invalid", EmptyDict)

\* what a question.json holds beside the fields aggregate_data sets: the
\* second one already has a photo
PassThroughs ==
  { [text |-> << "t" >>],
    [text |-> << "t" >>, photo |-> StrValue(<< "o", "l", "d" >>)] }

\* an entry of a questions directory
QEntry(is_dir, json, files) == [is_dir |-> is_dir, json |-> json, files |-> files]

\* the number of nodes of a questions directory: its entries and their files
QWeight(entries) ==
  LET RECURSIVE Sum(_)
      Sum(S) == IF S = {} THEN 0
                ELSE LET n == CHOOSE n \in S : TRUE
                     IN 1 + Cardinality(entries[n].files) + Sum(S \ {n})
  IN Sum(DOMAIN entries)

\* the question directories with pictures, of at most w nodes
PictureDirs(w) ==
  IF w < 1 THEN {}
  ELSE { QEntry(TRUE, Json("valid", pt), f) :
           pt \in PassThroughs, f \in {g \in SUBSET Files : Cardinality(g) <= w - 1} }

\* the entries a questions directory may hold under each name
QOptions(name, w) ==
  IF name = n_q1 THEN PictureDirs(w)
  ELSE IF w < 1 THEN {}
  ELSE IF name = n_q10 THEN {QEntry(TRUE, Json("valid", [text |-> << "u" >>]), {})}
  ELSE IF name = n_q2 THEN {QEntry(TRUE, BadJson, {})}
  ELSE IF name = n_q3 THEN {QEntry(TRUE, NoJson, {})}
  ELSE {QEntry(FALSE, NoJson, {})}

QNames == << n_q1, n_q10, n_q2, n_q3, n_notes >>

\* the contents of a questions directory of at most w nodes, with names
\* from the i-th name of QNames on
RECURSIVE QEntries(_, _)
QEntries(i, w) ==
  IF i > Len(QNames) THEN {EmptyDict}
  ELSE QEntries(i + 1, w) \cup
       UNION { { (QNames[i] :> e) @@ rest : rest \in QEntries(i + 1, w - 1 - Cardinality(e.files)) } :
               e \in QOptions(QNames[i], w) }

\* <dir>/questions: absent, a file, or a directory
QDir(status, entries) == [status |-> status, entries |-> entries]
NoQDir == QDir("absent", EmptyDict)

\* the questions entries of at most w nodes with names from the i-th on
QDirs(i, w) == {NoQDir, QDir("file", EmptyDict)} \cup {QDir("dir", e) : e \in QEntries(i, w)}

\* an entry of the root directory
RootEntry(is_dir, subject_json, questions) ==
  [is_dir |-> is_dir, subject_json |-> subject_json, questions |-> questions]

\* the entries the root directory may hold under each name, of at most w nodes
RootOptions(name, w) ==
  IF w < 1 THEN {}
  ELSE IF name = n_readme THEN {RootEntry(FALSE, NoJson, NoQDir)}
  ELSE IF name = n_git THEN {RootEntry(TRUE, Json("valid", [code |-> << "G" >>]), NoQDir)}
  ELSE IF name = n_web THEN {RootEntry(TRUE, Json("valid", [code |-> << "W" >>]), NoQDir)}
  ELSE IF name = n_tmp THEN {RootEntry(TRUE, NoJson, NoQDir), RootEntry(TRUE, NoJson, QDir("dir", EmptyDict))}
  ELSE IF name = n_aag
    THEN {RootEntry(TRUE, BadJson, NoQDir)} \cup
         {RootEntry(TRUE, Json("valid", [code |-> << "A" >>, title |-> << "x" >>]), q) : q \in QDirs(1, w - 1)}
  ELSE {RootEntry(TRUE, BadJson, NoQDir)} \cup
       {RootEntry(TRUE, Json("valid", [title |-> << "y" >>]), q) : q \in QDirs(2, w - 1)}

RootNames == << n_git, n_web, n_readme, n_tmp, n_aag, n_bio >>

RootWeight(e) == 1 + QWeight(e.questions.entries)

\* the root directories of at most w nodes, with names from the i-th name
\* of RootNames on
RECURSIVE Roots(_, _)
Roots(i, w) ==
  IF i > Len(RootNames) THEN {EmptyDict}
  ELSE Roots(i + 1, w) \cup
       UNION { { (RootNames[i] :> e) @@ rest : rest \in Roots(i + 1, w - RootWeight(e)) } :
               e \in RootOptions(RootNames[i], w) }

\* the arguments of aggregate_data: reference mode with each base URL, embed
\* mode with each quality
h == << "h", ":" >>
Arguments ==
  { [output_file |-> << << "o", "u", "t" >>, n_out >>, image_base_url |-> b, embed_images |-> FALSE, quality |-> 100] :
      b \in {None, << >>, h, h \o << "/", "/" >>} }
  \cup
  { [output_file |-> << << "o", "u", "t" >>, n_out >>, image_base_url |-> None, embed_images |-> TRUE, quality |-> q] :
      q \in {99, 100} }

(* ---------------------------- image resolver -------------------------- *)

\* Path.iterdir(): the entries of a directory in an order the system chooses
RECURSIVE Listings(_)
Listings(S) ==
  IF S = {} THEN {<< >>}
  ELSE UNION { { << x >> \o l : l \in Listings(S \ {x}) } : x \in S }

image_extensions ==
  { << ".", "p", "n", "g" >>, << ".", "j", "p", "g" >>, << ".", "j", "p", "e", "g" >>,
    << ".", "s", "v", "g" >>, << ".", "w", "e", "b", "p" >> }

IsImage(f) == Lower(Suffix(f.name)) \in image_extensions

\* [f for f in q_dir.iterdir() if f.suffix.lower() in image_extensions]
ImageFiles(listing) == SelectSeq(listing, IsImage)

\* a selection without the priority of quiz.png
MainImageFirst(image_files) == image_files[1]

\* next((f for f in image_files if f.name.lower() == 'quiz.png'), image_files[0])
MainImage(image_files) ==
  LET quiz == {i \in 1..Len(image_files) : Lower(image_files[i].name) = n_quiz_png}
  IN IF quiz # {} THEN image_files[CHOOSE i \in quiz : \A j \in quiz : i <= j]
     ELSE image_files[1]

\* a role decided by the whole name, as the comment of line 81 has it
FieldNameExact(name) == IF Lower(name) = n_quiz_png THEN "quizPhoto" ELSE "photo"

\* 'quizPhoto' if main_image.name.lower().startswith('quiz') else 'photo'
FieldName(name) == IF StartsWith(Lower(name), << "q", "u", "i", "z" >>) THEN "quizPhoto" ELSE "photo"

(* --------------------------- image materializer ------------------------ *)

\* f"{subject_dir.name}/questions/{q_dir.name}/{main_image.name}"
RelPath(subject, question, image) ==
  subject \o << "/" >> \o n_questions \o << "/" >> \o question \o << "/" >> \o image

\* the value of reference mode; None and '' are both false as a condition
RefValue(image_base_url, rel_path) ==
  IF image_base_url # None /\ image_base_url # << >>
    THEN StrValue(RStrip(image_base_url) \o << "/" >> \o rel_path)
    ELSE StrValue(rel_path)

\* f"data:{mime_type};base64,{encoded_string}": the mime type and the bytes
\* the base64 text encodes
DataUri(mime_type, bytes) == [kind |-> "data", text |-> mime_type, payload |-> bytes]

\* open(main_image, "rb").read()
RawBytes(path) == [file |-> path, encoding |-> << "r", "a", "w" >>, quality |-> 0]

\* buffer.getvalue() after img.save(buffer, format=fmt, ...)
SavedBytes(path, fmt, quality) == [file |-> path, encoding |-> fmt, quality |-> quality]

image_slash == << "i", "m", "a", "g", "e", "/" >>
svg_mime == image_slash \o << "s", "v", "g", "+", "x", "m", "l" >>

\* Image.open(main_image) returns an image
ImageOpens(f) == f.readable /\ f.format # << >>

\* img.save(buffer, ...) returns
ImageSaves(f) == f.complete

\* the format img.save is given
SaveFormat(f, quality) ==
  IF quality < 100 THEN WEBP
  ELSE IF f.format # << >> THEN f.format ELSE PNG

\* a mime type that ignores the conversion to WebP
MimeTypeOriginal(f, quality) == image_slash \o Lower(f.format)

\* the mime type of a re-encoded image
MimeType(f, quality) ==
  IF quality < 100 THEN image_slash \o << "w", "e", "b", "p" >>
  ELSE image_slash \o Lower(SaveFormat(f, quality))

\* mimetypes.guess_type(main_image)[0]
GuessType(name) ==
  LET ext == Lower(Suffix(name))
  IN IF ext = << ".", "p", "n", "g" >> THEN image_slash \o << "p", "n", "g" >>
     ELSE IF ext \in {<< ".", "j", "p", "g" >>, << ".", "j", "p", "e", "g" >>} THEN image_slash \o << "j", "p", "e", "g" >>
     ELSE IF ext = << ".", "s", "v", "g" >> THEN svg_mime
     ELSE IF ext = << ".", "w", "e", "b", "p" >> THEN image_slash \o << "w", "e", "b", "p" >>
     ELSE None

\* the try block of embed mode returns a value
PillowSucceeds(f) ==
  /\ ImageOpens(f)
  /\ Lower(Suffix(f.name)) # << ".", "s", "v", "g" >> => ImageSaves(f)

\* the value the try block of embed mode produces
Encoded(f, path, quality) ==
  IF Lower(Suffix(f.name)) = << ".", "s", "v", "g" >>
    THEN DataUri(svg_mime, RawBytes(path))
    ELSE DataUri(MimeType(f, quality), SavedBytes(path, SaveFormat(f, quality), quality))

\* the value the except block of embed mode produces
Fallback(f, path) == DataUri(GuessType(f.name), RawBytes(path))

\* how embed mode ends for the image f: "encoded", "fallback" (Pillow raised
\* and the raw bytes were read) or "raise" (the raw bytes cannot be read)
EmbedOutcome(f) ==
  IF PillowSucceeds(f) THEN "encoded"
  ELSE IF f.readable THEN "fallback"
  ELSE "raise"

\* an image stored under photo, and under quizPhoto too when it is a quiz image
AttachImageBoth(q_data, name, value) ==
  IF StartsWith(Lower(name), << "q", "u", "i", "z" >>)
    THEN Put(Put(q_data, "photo", value), "quizPhoto", value)
    ELSE Put(q_data, "photo", value)

\* q_data[field_name] = value
AttachImage(q_data, name, value) == Put(q_data, FieldName(name), value)

\* the path of a file of a subject directory
SubjectPath(subject, name) == << subject, name >>

\* the path of a file of a question directory
QuestionPath(subject, question, name) == << subject, n_questions, question, name >>

\* an except block that prints the warning and stores nothing
WithImageNoFallback(a, q_data, f, subject, question) ==
  LET path == QuestionPath(subject, question, f.name)
  IN IF a.embed_images
       THEN IF PillowSucceeds(f)
              THEN AttachImage(q_data, f.name, Encoded(f, path, a.quality))
              ELSE q_data
       ELSE AttachImage(q_data, f.name, RefValue(a.image_base_url, RelPath(subject, question, f.name)))

\* lines 57-98: the question with the value of its image f, when the read of
\* the except block does not raise
WithImage(a, q_data, f, subject, question) ==
  LET path == QuestionPath(subject, question, f.name)
  IN IF a.embed_images
       THEN IF PillowSucceeds(f)
              THEN AttachImage(q_data, f.name, Encoded(f, path, a.quality))
              ELSE AttachImage(q_data, f.name, Fallback(f, path))
       ELSE AttachImage(q_data, f.name, RefValue(a.image_base_url, RelPath(subject, question, f.name)))

(* ----------------------------- tree aggregator ------------------------- *)

\* an exclusion that forgets the hidden directories
IsExcludedNoHidden(name) ==
  name \in {n_web, << "s", "c", "r", "i", "p", "t", "s" >>, << "m", "i", "s", "c" >>}

\* subject_dir.name.startswith('.') or subject_dir.name in ['web', 'scripts', 'misc']
IsExcluded(name) ==
  \/ StartsWith(name, << "." >>)
  \/ name \in {n_web, << "s", "c", "r", "i", "p", "t", "s" >>, << "m", "i", "s", "c" >>}

\* a message printed by the run
Message(what, path) == [what |-> what, path |-> path]

\* an exception that leaves aggregate_data
Raised(type, path) == [type |-> type, path |-> path]
NoError == Raised("", << >>)

\* the JSON document
FinalData(subjects, output_file) ==
  [subjects |-> subjects, generatedAt |-> output_file[Len(output_file)], version |-> "1.0.0"]

\* a file with its content
Written(data) == [exists |-> TRUE, data |-> data]
NoFile == [exists |-> FALSE, data |-> FinalData(<< >>, << << >> >>)]

\* the entries of a question directory: question.json, if any, and the files
QuestionJsonFile == File(n_question_json, TRUE, << >>, FALSE)
DirEntries(q) == q.files \cup (IF q.json.status = "absent" THEN {} ELSE {QuestionJsonFile})

VARIABLES
  fs,                \* the input tree under questions_dir
  args,              \* the arguments of aggregate_data
  run,               \* 1 or 2: which run of the script on this tree
  pc,                \* "start", "subjects", "questions", "done", "raised"
  todo,              \* the subject directories the outer loop has yet to visit
  subject_dir,       \* the name of the outer loop's directory
  subject_info,
  subject_questions,
  qtodo,             \* the question directories the inner loop has yet to visit
  q_dir,             \* the name of the inner loop's directory
  image_files,
  main_image,
  subjects_data,
  log,               \* what the run printed
  error,             \* the exception that ended the run
  output,            \* the output file
  written,           \* this run wrote the output file
  listed,            \* the image_files of each question of this run
  first              \* how the first run ended

vars ==
  << fs, args, run, pc, todo, subject_dir, subject_info, subject_questions, qtodo,
     q_dir, image_files, main_image, subjects_data, log, error, output, written,
     listed, first >>

NoImage == File(<< >>, FALSE, << >>, FALSE)

Locals0 ==
  /\ todo = << >>
  /\ subject_dir = << >>
  /\ subject_info = EmptyDict
  /\ subject_questions = << >>
  /\ qtodo = << >>
  /\ q_dir = << >>
  /\ image_files = << >>
  /\ main_image = NoImage
  /\ subjects_data = << >>
  /\ log = << >>
  /\ error = NoError
  /\ written = FALSE
  /\ listed = EmptyDict

Ended(p, o, l, e, li) == [pc |-> p, output |-> o, log |-> l, error |-> e, listed |-> li]

Init ==
  /\ fs \in Roots(1, MaxNodes)
  /\ args \in Arguments
  /\ run = 1
  /\ pc = "start"
  /\ Locals0
  /\ output = NoFile
  /\ first = Ended("", NoFile, << >>, NoError, EmptyDict)

\* lines 10-14: the sorted listing of the root directory
Start ==
  /\ pc = "start"
  /\ \E listing \in Listings(DOMAIN fs) : todo' = Sorted(listing)
  /\ pc' = "subjects"
  /\ UNCHANGED << fs, args, run, subject_dir, subject_info, subject_questions, qtodo, q_dir,
                  image_files, main_image, subjects_data, log, error, output, written,
                  listed, first >>

\* a subject.json that is not JSON skipped as a question.json is
OnBadSubjectSkips(path) == [pc |-> "subjects", error |-> NoError]

\* lines 29-30: json.load raises on a subject.json that is not JSON and
\* nothing catches it
OnBadSubject(path) == [pc |-> "raised", error |-> Raised("JSONDecodeError", path)]

\* lines 14-37: one subject directory, up to the listing of its questions
SubjectStep ==
  /\ pc = "subjects"
  /\ todo # << >>
  /\ LET name == Head(todo)
         e == fs[name]
     IN /\ subject_dir' = name
        /\ todo' = Tail(todo)
        /\ IF ~e.is_dir \/ IsExcluded(name)
             THEN UNCHANGED << pc, subject_info, subject_questions, qtodo, log, error >>
           ELSE IF e.subject_json.status = "absent"
             THEN /\ log' = IF e.questions.status # "absent"
                              THEN Append(log, Message("Warning: No subject.json found in", << name >>))
                              ELSE log
                  /\ UNCHANGED << pc, subject_info, subject_questions, qtodo, error >>
           ELSE IF e.subject_json.status = "invalid"
             THEN /\ pc' = OnBadSubject(SubjectPath(name, n_subject_json)).pc
                  /\ error' = OnBadSubject(SubjectPath(name, n_subject_json)).error
                  /\ UNCHANGED << subject_info, subject_questions, qtodo, log >>
           ELSE /\ subject_info' = e.subject_json.data
                /\ subject_questions' = << >>
                /\ IF e.questions.status = "dir"
                     THEN \E listing \in Listings(DOMAIN e.questions.entries) : qtodo' = Sorted(listing)
                     ELSE qtodo' = << >>
                /\ pc' = "questions"
                /\ UNCHANGED << log, error >>
  /\ UNCHANGED << fs, args, run, q_dir, image_files, main_image, subjects_data, output,
                  written, listed, first >>

\* lines 46-47: the parsed question with its id and the code of its subject
Merge(data, question, info) == Put(Put(data, "id", question), "subjectCode", Get(info, "code"))

\* a handler that loses the questions the subject already has
OnBadQuestionDrops(questions, printed, path) ==
  [questions |-> << >>, log |-> Append(printed, Message("Error decoding JSON in", path))]

\* lines 101-102: what the subject's questions and the output become when a
\* question.json is not JSON
OnBadQuestion(questions, printed, path) ==
  [questions |-> questions, log |-> Append(printed, Message("Error decoding JSON in", path))]

\* lines 37-102: one question directory
QuestionStep ==
  /\ pc = "questions"
  /\ qtodo # << >>
  /\ LET name == Head(qtodo)
         q == fs[subject_dir].questions.entries[name]
         path == QuestionPath(subject_dir, name, n_question_json)
     IN /\ q_dir' = name
        /\ qtodo' = Tail(qtodo)
        /\ IF ~q.is_dir \/ q.json.status = "absent"
             THEN UNCHANGED << pc, subject_questions, image_files, main_image, log, error, listed >>
           ELSE IF q.json.status = "invalid"
             THEN /\ subject_questions' = OnBadQuestion(subject_questions, log, path).questions
                  /\ log' = OnBadQuestion(subject_questions, log, path).log
                  /\ UNCHANGED << pc, image_files, main_image, error, listed >>
           ELSE \E listing \in Listings(DirEntries(q)) :
                  LET q_data == Merge(q.json.data, name, subject_info)
                      found == ImageFiles(listing)
                      image == MainImage(found)
                      ipath == QuestionPath(subject_dir, name, image.name)
                  IN /\ image_files' = found
                     /\ listed' = Put(listed, << subject_dir, name >>, found)
                     /\ IF found = << >>
                          THEN /\ subject_questions' = Append(subject_questions, q_data)
                               /\ UNCHANGED << pc, main_image, log, error >>
                        ELSE IF args.embed_images /\ EmbedOutcome(image) = "raise"
                          THEN /\ main_image' = image
                               /\ log' = Append(log, Message("Warning: Could not process image", ipath))
                               /\ pc' = "raised"
                               /\ error' = Raised("OSError", ipath)
                               /\ UNCHANGED subject_questions
                        ELSE /\ main_image' = image
                             /\ log' = IF args.embed_images /\ EmbedOutcome(image) = "fallback"
                                         THEN Append(log, Message("Warning: Could not process image", ipath))
                                         ELSE log
                             /\ subject_questions' =
                                  Append(subject_questions, WithImage(args, q_data, image, subject_dir, name))
                             /\ UNCHANGED << pc, error >>
  /\ UNCHANGED << fs, args, run, todo, subject_dir, subject_info, subjects_data, output,
                  written, first >>

\* lines 105-106: the subject with its questions joins the document
EndSubject ==
  /\ pc = "questions"
  /\ qtodo = << >>
  /\ subjects_data' = Append(subjects_data, Put(subject_info, "questions", subject_questions))
  /\ pc' = "subjects"
  /\ UNCHANGED << fs, args, run, todo, subject_dir, subject_info, subject_questions, qtodo,
                  q_dir, image_files, main_image, log, error, output, written, listed, first >>

\* lines 109-118: the document is written
WriteOutput ==
  /\ pc = "subjects"
  /\ todo = << >>
  /\ output' = Written(FinalData(subjects_data, args.output_file))
  /\ written' = TRUE
  /\ log' = Append(log, Message("Successfully generated", args.output_file))
  /\ pc' = "done"
  /\ UNCHANGED << fs, args, run, todo, subject_dir, subject_info, subject_questions, qtodo,
                  q_dir, image_files, main_image, subjects_data, error, listed, first >>

\* lines 120-154: the script is run once more on the same tree with the
\* same arguments
Rerun ==
  /\ pc \in {"done", "raised"}
  /\ run = 1
  /\ run' = 2
  /\ first' = Ended(pc, output, log, error, listed)
  /\ pc' = "start"
  /\ todo' = << >>
  /\ subject_dir' = << >>
  /\ subject_info' = EmptyDict
  /\ subject_questions' = << >>
  /\ qtodo' = << >>
  /\ q_dir' = << >>
  /\ image_files' = << >>
  /\ main_image' = NoImage
  /\ subjects_data' = << >>
  /\ log' = << >>
  /\ error' = NoError
  /\ written' = FALSE
  /\ listed' = EmptyDict
  /\ UNCHANGED << fs, args, output >>

Next == Start \/ SubjectStep \/ QuestionStep \/ EndSubject \/ WriteOutput \/ Rerun

Spec == Init /\ [][Next]_vars

(* ------------------------- the claims: the tree ------------------------ *)

Last(seq) == seq[Len(seq)]

ImageKeys == {"photo", "quizPhoto"}

\* the subject directories the run does not skip: a directory, not hidden,
\* not web, scripts or misc, that holds a subject.json
Kept ==
  { n \in DOMAIN fs :
      /\ fs[n].is_dir
      /\ n[1] # "."
      /\ n \notin {n_web, << "s", "c", "r", "i", "p", "t", "s" >>, << "m", "i", "s", "c" >>}
      /\ fs[n].subject_json.status # "absent" }

\* the subject directories whose subject.json is not JSON
BadSubjects == {n \in Kept : fs[n].subject_json.status = "invalid"}

\* the question directories of a subject whose question.json is JSON, and
\* those whose question.json is not
QuestionsOf(n, status) ==
  IF fs[n].questions.status # "dir" THEN {}
  ELSE { q \in DOMAIN fs[n].questions.entries :
           fs[n].questions.entries[q].is_dir /\ fs[n].questions.entries[q].json.status = status }

\* the subject directory of the i-th subject of the document: the i-th of the
\* kept directories in the order of their names
KeptBefore(n) == {m \in Kept : StrLess(m, n)}
DirOf(i) == CHOOSE n \in Kept : Cardinality(KeptBefore(n)) = i - 1

\* the question.json behind a record of the i-th subject of the document
SourceOf(i, record) == fs[DirOf(i)].questions.entries[record.id].json.data

Document == output.data.subjects

\* the records of the document, each with the number of its subject
Records ==
  UNION { { << i, Document[i].questions[k] >> : k \in 1..Len(Document[i].questions) } :
          i \in 1..Len(Document) }

\* C1 as stated: no question record of the output holds both photo and
\* quizPhoto, whatever question.json holds.
C1_NeverBoth ==
  written => \A ir \in Records : ~(ImageKeys \subseteq DOMAIN ir[2])

\* C1, amended: a question record of the output holds both photo and
\* quizPhoto only if its question.json already held one of them; in either
\* mode aggregate_data adds at most one of the two keys.
C1_AtMostOneAdded ==
  written =>
    \A ir \in Records :
      LET source == SourceOf(ir[1], ir[2])
      IN /\ Cardinality((DOMAIN ir[2] \cap ImageKeys) \ DOMAIN source) <= 1
         /\ ImageKeys \subseteq DOMAIN ir[2] => DOMAIN source \cap ImageKeys # {}

C1_Witness ==
  /\ written
  /\ \E ir \in Records :
       /\ DOMAIN SourceOf(ir[1], ir[2]) \cap ImageKeys = {}
       /\ "quizPhoto" \in DOMAIN ir[2]
       /\ "photo" \notin DOMAIN ir[2]

C3_BadSubjectAborts ==
  /\ BadSubjects # {} => ~written /\ pc # "done"
  /\ error.type = "JSONDecodeError" =>
       /\ pc = "raised"
       /\ \E n \in BadSubjects : error.path = << n, n_subject_json >>

C3_Witness ==
  /\ pc = "raised"
  /\ error.type = "JSONDecodeError"
  /\ subjects_data # << >>
  /\ ~written

\* C5: the codes of the subjects of the output are the codes of the kept
\* subject.json files, and the output has one subject for each kept
\* directory.
C5_SubjectCodes ==
  written =>
    /\ {Document[i].code : i \in {j \in 1..Len(Document) : "code" \in DOMAIN Document[j]}}
         = {fs[n].subject_json.data.code : n \in {m \in Kept : "code" \in DOMAIN fs[m].subject_json.data}}
    /\ Len(Document) = Cardinality(Kept)
    /\ \A i \in 1..Len(Document) : Get(Document[i], "code") = Get(fs[DirOf(i)].subject_json.data, "code")

C5_Witness ==
  /\ written
  /\ n_aag \in Kept
  /\ DOMAIN fs \ Kept # {}
  /\ \E n \in DOMAIN fs \ Kept : fs[n].subject_json.status = "valid"

(* ------------------------ the claims: the images ----------------------- *)

\* the inner loop's question directory is one whose images the run has
\* listed, and it has candidates: main_image is its selected image
Resolved ==
  /\ pc \in {"questions", "raised"}
  /\ << subject_dir, q_dir >> \in DOMAIN listed
  /\ image_files # << >>

\* the record of the inner loop's question directory was appended
Appended ==
  /\ pc = "questions"
  /\ << subject_dir, q_dir >> \in DOMAIN listed
  /\ subject_questions # << >>
  /\ Last(subject_questions).id = q_dir

\* question.json of the inner loop's question directory
Source == fs[subject_dir].questions.entries[q_dir].json.data

\* the name starts with "quiz", whatever the case of its letters
NamedQuiz(name) == Len(name) >= 4 /\ Lower(SubSeq(name, 1, 4)) = << "q", "u", "i", "z" >>

\* the role of the selected image, and the other one
Role == IF NamedQuiz(main_image.name) THEN "quizPhoto" ELSE "photo"
OtherRole == IF NamedQuiz(main_image.name) THEN "photo" ELSE "quizPhoto"

\* the value is one of the selected image: a data URI of bytes of that file,
\* or a path that ends with its name
OfMainImage(value) ==
  IF value.kind = "data"
    THEN value.payload.file = << subject_dir, n_questions, q_dir, main_image.name >>
    ELSE /\ Len(value.text) > Len(main_image.name)
         /\ SubSeq(value.text, Len(value.text) - Len(main_image.name), Len(value.text))
              = << "/" >> \o main_image.name

\* Pillow fails on the selected image: it cannot be opened as an image, or
\* it is a raster image that cannot be saved again
PillowFails ==
  \/ ~main_image.readable
  \/ main_image.format = << >>
  \/ Lower(Suffix(main_image.name)) # << ".", "s", "v", "g" >> /\ ~main_image.complete

\* the warning naming the selected image was printed
Warned ==
  \E k \in 1..Len(log) :
    log[k] = Message("Warning: Could not process image", << subject_dir, n_questions, q_dir, main_image.name >>)

\* the record holds, under the role of the selected image, a data URI of the
\* unmodified bytes of that file
HoldsRawBytes(record) ==
  /\ Role \in DOMAIN record
  /\ record[Role].kind = "data"
  /\ record[Role].payload = RawBytes(<< subject_dir, n_questions, q_dir, main_image.name >>)

\* C4 as stated: in embed mode, whenever Pillow fails on the selected image,
\* whatever the reason, the run goes on, the warning is printed and the
\* question is appended with the raw bytes under the role of the image.
C4_FallbackAlways ==
  Resolved /\ args.embed_images /\ PillowFails =>
    /\ pc = "questions"
    /\ Warned
    /\ Appended
    /\ HoldsRawBytes(Last(subject_questions))

\* C4, amended: in embed mode, whenever Pillow fails on a selected image whose
\* bytes can be read, the run goes on, the warning is printed and the question
\* is appended with the raw bytes under the role of the image; when the bytes
\* cannot be read the warning is printed and the run ends with the error of
\* the read.
C4_FallbackWhenReadable ==
  Resolved /\ args.embed_images /\ PillowFails =>
    /\ Warned
    /\ main_image.readable =>
         /\ pc = "questions"
         /\ Appended
         /\ HoldsRawBytes(Last(subject_questions))
    /\ ~main_image.readable =>
         /\ pc = "raised"
         /\ error = Raised("OSError", << subject_dir, n_questions, q_dir, main_image.name >>)

C4_Witness ==
  /\ Resolved
  /\ args.embed_images
  /\ main_image.readable
  /\ main_image.format # << >>
  /\ ~main_image.complete
  /\ Appended
  /\ HoldsRawBytes(Last(subject_questions))

\* the candidates: the files whose extension, in lower case, is one of
\* png, jpg, jpeg, svg, webp
IsCandidate(f) ==
  \E ext \in {<< "p", "n", "g" >>, << "j", "p", "g" >>, << "j", "p", "e", "g" >>,
             << "s", "v", "g" >>, << "w", "e", "b", "p" >>} :
    /\ Len(f.name) > Len(ext) + 1
    /\ Lower(SubSeq(f.name, Len(f.name) - Len(ext), Len(f.name))) = << "." >> \o ext

\* C6: the candidates are the files with an image extension; with candidates,
\* the selected image is the first one named quiz.png (whatever the case) if
\* there is one and the first candidate otherwise, and it is the image the
\* record holds; without candidates the record holds no image field beside
\* those of question.json.
C6_Selection ==
  /\ pc \in {"questions", "raised"} /\ << subject_dir, q_dir >> \in DOMAIN listed =>
       /\ {image_files[i] : i \in 1..Len(image_files)}
            = {f \in fs[subject_dir].questions.entries[q_dir].files : IsCandidate(f)}
       /\ Len(image_files) = Cardinality({image_files[i] : i \in 1..Len(image_files)})
  /\ Resolved =>
       LET quiz == {i \in 1..Len(image_files) : Lower(image_files[i].name) = n_quiz_png}
       IN /\ quiz # {} => \E i \in quiz : main_image = image_files[i] /\ \A j \in quiz : i <= j
          /\ quiz = {} => main_image = image_files[1]
          /\ Appended => OfMainImage(Last(subject_questions)[Role])
  /\ Appended /\ image_files = << >> =>
       \A k \in ImageKeys :
         /\ k \in DOMAIN Last(subject_questions) <=> k \in DOMAIN Source
         /\ k \in DOMAIN Source => Last(subject_questions)[k] = Source[k]

C6_Witness ==
  /\ Resolved
  /\ Appended
  /\ Len(image_files) = 2
  /\ Lower(image_files[1].name) # n_quiz_png
  /\ Lower(image_files[2].name) = n_quiz_png
  /\ main_image = image_files[2]

Stripped(s, base) ==
  \E k \in 0..Len(base) :
    /\ s = SubSeq(base, 1, k)
    /\ \A i \in (k + 1)..Len(base) : base[i] = "/"
    /\ k > 0 => base[k] # "/"

\* C8: in reference mode the value is subject/questions/question/image
\* without a base URL (None or the empty string), and with one it is the base
\* URL without the slashes at its end, a slash, and that path.
C8_Reference ==
  Resolved /\ Appended /\ ~args.embed_images =>
    LET value == Last(subject_questions)[Role]
        rel == subject_dir \o << "/", "q", "u", "e", "s", "t", "i", "o", "n", "s", "/" >> \o q_dir
                 \o << "/" >> \o main_image.name
    IN /\ value.kind = "str"
       /\ args.image_base_url \in {None, << >>} => value.text = rel
       /\ args.image_base_url \notin {None, << >>} =>
            \E s \in {SubSeq(args.image_base_url, 1, k) : k \in 0..Len(args.image_base_url)} :
              Stripped(s, args.image_base_url) /\ value.text = s \o << "/" >> \o rel

C8_Witness ==
  /\ Resolved
  /\ Appended
  /\ ~args.embed_images
  /\ args.image_base_url = << "h", ":", "/", "/" >>
  /\ Last(subject_questions)[Role].text
       = << "h", ":", "/", "a", "a", "g", "/", "q", "u", "e", "s", "t", "i", "o", "n", "s", "/",
            "q", "1", "/", "q", "u", "i", "z", ".", "p", "n", "g" >>

\* C10: in embed mode, for a raster image that Pillow opens and saves, the
\* mime type of the data URI is image/webp when quality < 100 and image/
\* followed by the detected format in lower case when quality = 100.
C10_MimeType ==
  Resolved /\ Appended /\ args.embed_images /\ ~PillowFails
    /\ Lower(Suffix(main_image.name)) # << ".", "s", "v", "g" >> =>
    LET value == Last(subject_questions)[Role]
    IN /\ value.kind = "data"
       /\ args.quality < 100 => value.text = << "i", "m", "a", "g", "e", "/", "w", "e", "b", "p" >>
       /\ args.quality = 100 =>
            value.text = << "i", "m", "a", "g", "e", "/" >> \o Lower(main_image.format)

C10_Witness ==
  /\ Resolved
  /\ Appended
  /\ args.embed_images
  /\ args.quality < 100
  /\ main_image.format = PNG
  /\ main_image.complete
  /\ Last(subject_questions)[Role].text = << "i", "m", "a", "g", "e", "/", "w", "e", "b", "p" >>

(* ------------------------ the claims: the two runs --------------------- *)

\* C9 as stated: when two runs on the same tree with the same arguments both
\* write a document, the two documents are the same.
C9_SameOutput ==
  run = 2 /\ pc = "done" /\ first.pc = "done" => output = first.output

\* C9, amended: a second run on the same tree with the same arguments in
\* which every question directory lists its image candidates in the order of
\* the first run ends as the first run did, with the same document if it
\* writes one, whatever the order in which the root directory and the
\* questions directories are listed.
C9_SameOutputSameListing ==
  run = 2 /\ pc \in {"done", "raised"} /\ listed = first.listed =>
    /\ first.pc = pc
    /\ first.error = error
    /\ first.log = log
    /\ first.output = output

C9_Witness ==
  /\ run = 2
  /\ pc = "done"
  /\ listed = first.listed
  /\ Len(Document) = 1
  /\ \E k \in DOMAIN listed : Len(listed[k]) = 2

====
